---- MODULE Spec2Model ----
(***************************************************************************)
(* Credential refresh of the athome server: Server.refreshAuth,            *)
(* Server.startBackgroundTokenRefresh and extractTokenExpiry, the          *)
(* background goroutine of setupServer, and the sync.RWMutex (authMutex)   *)
(* they share.                                                             *)
(*                                                                         *)
(* Time is counted in minutes.  A transport call (ServerCreateSession,     *)
(* ServerRefreshSession) is two steps: the request reaches the issuer,     *)
(* which answers it (Send), and the caller receives the answer (Recv).     *)
(***************************************************************************)
EXTENDS Integers, FiniteSets, Sequences, TLC

(* ------------------------------ bounds --------------------------------- *)
NumReq == 3          \* request goroutines calling refreshAuth
MaxTicks == 1        \* clock advances in one behaviour
NumBgReq == 1        \* request goroutines running beside the background loops
StartTime == 5000    \* wall clock at the start (far from the zero time)
TokenLifetime == 120 \* lifetime the issuer gives an access JWT
MaxTicker == 26      \* ticks of a 5-minute ticker in one behaviour

(* ------------------------- program constants --------------------------- *)
Zero == 0                    \* time.Time{} (IsZero)
RefreshMargin == 30          \* RefreshAt.Add(-30*time.Minute) in the checks
ExpiryMargin == 30           \* expiry.Add(-30 * time.Minute)
DefaultRefresh == 23 * 60    \* time.Now().Add(time.Hour * 23)
SvcMargin == 10              \* RefreshAt.Add(-10*time.Minute) in setupServer
TickInterval == 5            \* time.NewTicker(5 * time.Minute)

(* ------------------------------ processes ------------------------------ *)
Req(i) == <<"req", i>>
Reqs == {Req(i) : i \in 1..NumReq}
BgReqs == {Req(i) : i \in 1..NumBgReq}
Bg == <<"bg", 0>>            \* Server.startBackgroundTokenRefresh
Svc == <<"svc", 0>>          \* the goroutine started by setupServer
NoOne == <<"none", 0>>
Main == <<"main", 0>>        \* startServer
Procs == Reqs \cup {Bg, Svc, Main}

(* ----------------------------- token texts ----------------------------- *)
\* A token text is a sequence of one-character strings; decoded bytes are
\* ASCII codes.
Min(S) == CHOOSE x \in S : \A y \in S : x <= y

\* const encodeURL of encoding/base64
encodeURL ==
    <<"A", "B", "C", "D", "E", "F", "G", "H", "I", "J", "K", "L", "M",
      "N", "O", "P", "Q", "R", "S", "T", "U", "V", "W", "X", "Y", "Z",
      "a", "b", "c", "d", "e", "f", "g", "h", "i", "j", "k", "l", "m",
      "n", "o", "p", "q", "r", "s", "t", "u", "v", "w", "x", "y", "z",
      "0", "1", "2", "3", "4", "5", "6", "7", "8", "9", "-", "_">>

\* strings.Repeat
Repeat(c, n) == [i \in 1..n |-> c]

\* strings.Split(s, sep) for a separator of one character
Split(s, sep) ==
    LET at == {i \in DOMAIN s : s[i] = sep}
        cut(k) == IF k = 0 THEN 0
                  ELSE IF k = Cardinality(at) + 1 THEN Len(s) + 1
                  ELSE CHOOSE i \in at : Cardinality({j \in at : j < i}) = k - 1
    IN  [k \in 1..(Cardinality(at) + 1) |-> SubSeq(s, cut(k - 1) + 1, cut(k) - 1)]

\* the six bits of a character of the alphabet
IsBase64(c) == \E i \in DOMAIN encodeURL : encodeURL[i] = c
Sextet(c) == (CHOOSE i \in DOMAIN encodeURL : encodeURL[i] = c) - 1

\* base64.URLEncoding.EncodeToString, and the same with the trailing "="
\* cut down to keep of them (base64.RawURLEncoding when keep = 0)
RECURSIVE EncodeToString(_)
EncodeToString(b) ==
    IF Len(b) = 0 THEN <<>>
    ELSE IF Len(b) = 1 THEN
        <<encodeURL[(b[1] \div 4) + 1], encodeURL[(b[1] % 4) * 16 + 1], "=", "=">>
    ELSE IF Len(b) = 2 THEN
        <<encodeURL[(b[1] \div 4) + 1],
          encodeURL[((b[1] % 4) * 16) + (b[2] \div 16) + 1],
          encodeURL[(b[2] % 16) * 4 + 1], "=">>
    ELSE
        <<encodeURL[(b[1] \div 4) + 1],
          encodeURL[((b[1] % 4) * 16) + (b[2] \div 16) + 1],
          encodeURL[(b[2] % 16) * 4 + (b[3] \div 64) + 1],
          encodeURL[(b[3] % 64) + 1]>> \o EncodeToString(SubSeq(b, 4, Len(b)))

PaddingOf(b) == (3 - (Len(b) % 3)) % 3
EncodeKeeping(b, keep) ==
    SubSeq(EncodeToString(b), 1, Len(EncodeToString(b)) - PaddingOf(b) + keep)

\* base64.URLEncoding.DecodeString: quanta of four characters, "=" only as
\* the last one or two characters of the input
CorruptInput == [ok |-> FALSE, bytes |-> <<>>]
DecodeQuantum(q, last) ==
    LET n == IF last /\ q[3] = "=" /\ q[4] = "=" THEN 2
             ELSE IF last /\ q[4] = "=" THEN 3
             ELSE 4
        v(i) == Sextet(q[i])
    IN  IF \E i \in 1..n : ~IsBase64(q[i]) THEN CorruptInput
        ELSE [ok |-> TRUE,
              bytes |-> SubSeq(<<v(1) * 4 + (v(2) \div 16),
                                 (v(2) % 16) * 16 + (IF n > 2 THEN v(3) \div 4 ELSE 0),
                                 IF n > 3 THEN (v(3) % 4) * 64 + v(4) ELSE 0>>,
                               1, n - 1)]

RECURSIVE DecodeQuanta(_)
DecodeQuanta(s) ==
    IF Len(s) = 0 THEN [ok |-> TRUE, bytes |-> <<>>]
    ELSE IF Len(s) < 4 THEN CorruptInput
    ELSE LET head == DecodeQuantum(SubSeq(s, 1, 4), Len(s) = 4)
             rest == DecodeQuanta(SubSeq(s, 5, Len(s)))
         IN  IF head.ok /\ rest.ok
             THEN [ok |-> TRUE, bytes |-> head.bytes \o rest.bytes]
             ELSE CorruptInput

\* the decoder passes over "\r" and "\n"
IsNewline(c) == c \in {"\r", "\n"}
NotNewline(c) == ~IsNewline(c)
DecodeString(s) == DecodeQuanta(SelectSeq(s, NotNewline))

\* json.Unmarshal into a map[string]interface{}, for flat objects whose
\* values are numbers without exponent, strings without escapes, true, false
\* or null: whether it succeeds, and the value found under "exp"
JsonSpace == {32, 9, 10, 13}
JsonDigit == 48..57
ExpKey == <<101, 120, 112>>
SyntaxError == [ok |-> FALSE, has |-> FALSE, val |-> [type |-> "none", num |-> 0]]
NoClaim == [ok |-> TRUE, has |-> FALSE, val |-> [type |-> "none", num |-> 0]]

\* the first index from i on that is not white space (not a digit)
SkipSpace(b, i) ==
    LET rest == {j \in i..Len(b) : b[j] \notin JsonSpace}
    IN  IF rest = {} THEN Len(b) + 1 ELSE Min(rest)
SkipDigits(b, i) ==
    LET rest == {j \in i..Len(b) : b[j] \notin JsonDigit}
    IN  IF rest = {} THEN Len(b) + 1 ELSE Min(rest)

RECURSIVE Decimal(_, _, _)
Decimal(b, from, to) ==
    IF to < from THEN 0 ELSE Decimal(b, from, to - 1) * 10 + (b[to] - 48)

NoValue == [ok |-> FALSE, val |-> [type |-> "none", num |-> 0], next |-> 0]

\* a string: its bytes
JsonString(b, i) ==
    IF i > Len(b) \/ b[i] # 34 THEN [ok |-> FALSE, val |-> <<>>, next |-> 0]
    ELSE LET close == {j \in (i + 1)..Len(b) : b[j] = 34}
         IN  IF close = {} THEN [ok |-> FALSE, val |-> <<>>, next |-> 0]
             ELSE [ok |-> TRUE, val |-> SubSeq(b, i + 1, Min(close) - 1),
                   next |-> Min(close) + 1]

\* JsonNumber accepting integers only
JsonNumber_IntegersOnly(b, i) ==
    LET neg == b[i] = 45
        first == IF neg THEN i + 1 ELSE i
        intEnd == SkipDigits(b, first)
    IN  IF \/ intEnd = first
           \/ b[first] = 48 /\ intEnd > first + 1
           \/ intEnd <= Len(b) /\ b[intEnd] = 46
        THEN NoValue
        ELSE [ok |-> TRUE,
              val |-> [type |-> "float64",
                       num |-> IF neg THEN 0 - Decimal(b, first, intEnd - 1)
                               ELSE Decimal(b, first, intEnd - 1)],
              next |-> intEnd]

\* a number: a float64, kept as the integer int64() converts it to
JsonNumber(b, i) ==
    LET neg == b[i] = 45
        first == IF neg THEN i + 1 ELSE i
        intEnd == SkipDigits(b, first)
        hasFrac == intEnd <= Len(b) /\ b[intEnd] = 46
        fracEnd == IF hasFrac THEN SkipDigits(b, intEnd + 1) ELSE intEnd
    IN  IF \/ intEnd = first
           \/ b[first] = 48 /\ intEnd > first + 1
           \/ hasFrac /\ fracEnd = intEnd + 1
        THEN NoValue
        ELSE [ok |-> TRUE,
              val |-> [type |-> "float64",
                       num |-> IF neg THEN 0 - Decimal(b, first, intEnd - 1)
                               ELSE Decimal(b, first, intEnd - 1)],
              next |-> fracEnd]

JsonLiteral(b, i, word, type) ==
    IF i + Len(word) - 1 <= Len(b) /\ SubSeq(b, i, i + Len(word) - 1) = word
    THEN [ok |-> TRUE, val |-> [type |-> type, num |-> 0], next |-> i + Len(word)]
    ELSE NoValue

JsonValue(b, i) ==
    IF i > Len(b) THEN NoValue
    ELSE IF b[i] = 34 THEN
        LET str == JsonString(b, i)
        IN  [ok |-> str.ok, val |-> [type |-> "string", num |-> 0], next |-> str.next]
    ELSE IF b[i] = 45 \/ b[i] \in JsonDigit THEN JsonNumber(b, i)
    ELSE IF b[i] = 116 THEN JsonLiteral(b, i, <<116, 114, 117, 101>>, "bool")
    ELSE IF b[i] = 102 THEN JsonLiteral(b, i, <<102, 97, 108, 115, 101>>, "bool")
    ELSE IF b[i] = 110 THEN JsonLiteral(b, i, <<110, 117, 108, 108>>, "nil")
    ELSE NoValue

\* the members of an object from a key on; a later "exp" replaces an earlier
RECURSIVE JsonMembers(_, _, _)
JsonMembers(b, i, found) ==
    LET key == JsonString(b, i)
        colon == SkipSpace(b, key.next)
        value == JsonValue(b, SkipSpace(b, colon + 1))
        after == SkipSpace(b, value.next)
        claim == IF key.val = ExpKey
                 THEN [ok |-> TRUE, has |-> TRUE, val |-> value.val]
                 ELSE found
    IN  IF ~key.ok THEN SyntaxError
        ELSE IF colon > Len(b) \/ b[colon] # 58 THEN SyntaxError
        ELSE IF ~value.ok THEN SyntaxError
        ELSE IF after > Len(b) THEN SyntaxError
        ELSE IF b[after] = 125
             THEN IF SkipSpace(b, after + 1) > Len(b) THEN claim ELSE SyntaxError
        ELSE IF b[after] = 44 THEN JsonMembers(b, SkipSpace(b, after + 1), claim)
        ELSE SyntaxError

Unmarshal(b) ==
    LET start == SkipSpace(b, 1)
        open == SkipSpace(b, start + 1)
    IN  IF start > Len(b) THEN SyntaxError
        ELSE IF JsonLiteral(b, start, <<110, 117, 108, 108>>, "nil").ok
             THEN IF SkipSpace(b, start + 4) > Len(b) THEN NoClaim ELSE SyntaxError
        ELSE IF b[start] # 123 THEN SyntaxError
        ELSE IF open <= Len(b) /\ b[open] = 125
             THEN IF SkipSpace(b, open + 1) > Len(b) THEN NoClaim ELSE SyntaxError
        ELSE JsonMembers(b, open, NoClaim)

\* time.Unix(sec, 0): the Unix epoch lies UnixEpoch after the zero time
UnixEpoch == 1000
Unix(sec) == UnixEpoch + sec

\* extractTokenExpiry converting the exp claim whatever its type
extractTokenExpiry_AnyType(token) ==
    LET parts == Split(token, ".")
        claimsPart == IF Len(parts[2]) % 4 # 0
                      THEN parts[2] \o Repeat("=", 4 - (Len(parts[2]) % 4))
                      ELSE parts[2]
        claimsBytes == DecodeString(claimsPart)
        claims == Unmarshal(claimsBytes.bytes)
    IN  IF Len(parts) # 3 THEN Zero
        ELSE IF ~claimsBytes.ok THEN Zero
        ELSE IF ~claims.ok THEN Zero
        ELSE IF ~claims.has THEN Zero
        ELSE Unix(claims.val.num)

\* extractTokenExpiry decoding the middle part as it comes, without padding it
extractTokenExpiry_NoPadding(token) ==
    LET parts == Split(token, ".")
        claimsBytes == DecodeString(parts[2])
        claims == Unmarshal(claimsBytes.bytes)
    IN  IF Len(parts) # 3 THEN Zero
        ELSE IF ~claimsBytes.ok THEN Zero
        ELSE IF ~claims.ok THEN Zero
        ELSE IF ~claims.has THEN Zero
        ELSE IF claims.val.type = "float64" THEN Unix(claims.val.num)
        ELSE Zero

\* extractTokenExpiry
extractTokenExpiry(token) ==
    LET parts == Split(token, ".")
        claimsPart == IF Len(parts[2]) % 4 # 0
                      THEN parts[2] \o Repeat("=", 4 - (Len(parts[2]) % 4))
                      ELSE parts[2]
        claimsBytes == DecodeString(claimsPart)
        claims == Unmarshal(claimsBytes.bytes)
    IN  IF Len(parts) # 3 THEN Zero
        ELSE IF ~claimsBytes.ok THEN Zero
        ELSE IF ~claims.ok THEN Zero
        ELSE IF ~claims.has THEN Zero
        ELSE IF claims.val.type = "float64" THEN Unix(claims.val.num)
        ELSE Zero

(* ------------------------------- tokens -------------------------------- *)
\* the decimal digits of a number, as bytes
RECURSIVE Digits(_)
Digits(n) ==
    IF n < 0 THEN <<45>> \o Digits(0 - n)
    ELSE IF n < 10 THEN <<48 + n>>
    ELSE Digits(n \div 10) \o <<48 + (n % 10)>>

\* the text header.base64url({"exp": T}).signature, the middle part keeping
\* pad of its "=", and the text of a token that is not a JWT
Header == <<"e", "y", "J", "9">>
Signature == <<"s", "i", "g">>
ClaimsJson(T) == <<123, 34, 101, 120, 112, 34, 58, 32>> \o Digits(T) \o <<125>>
JwtText(T, pad) ==
    Header \o <<".">> \o EncodeKeeping(ClaimsJson(T), pad) \o <<".">> \o Signature
OpaqueText == <<"m", "o", "c", "k", "-", "t", "o", "k", "e", "n">>

\* the text header.base64url(bytes).signature
JwtOf(bytes) ==
    Header \o <<".">> \o EncodeKeeping(bytes, 0) \o <<".">> \o Signature

\* the claims {"exp": v} with T written as an integer (T), as a number with
\* a fraction (T.0) or as a string ("T")
ClaimsJsonAs(T, form) ==
    <<123, 34, 101, 120, 112, 34, 58, 32>>
    \o (IF form = "float" THEN Digits(T) \o <<46, 48>>
        ELSE IF form = "string" THEN <<34>> \o Digits(T) \o <<34>>
        ELSE Digits(T))
    \o <<125>>

\* token texts, and for each the reason extractTokenExpiry has to return the
\* zero time for it: the number of parts, the base64url of the middle part,
\* its JSON, the absence of exp, the type of exp ("ok": there is none)
TokenTexts ==
    <<
      [text |-> <<"n", "o", "t", "-", "a", "-", "j", "w", "t">>,
       why |-> "parts"],
      [text |-> <<"a", ".", "b">>,
       why |-> "parts"],
      [text |-> <<"a", ".", "b", ".", "c", ".", "d">>,
       why |-> "parts"],
      [text |-> <<>>,
       why |-> "parts"],
      [text |-> <<"a", ".", "b", ".", "c">>,
       why |-> "base64"],
      [text |-> <<"a", ".", "a", "b", "+", "/", ".", "c">>,
       why |-> "base64"],
      [text |-> <<"a", ".", "a", "b", "c", "d", "e", ".", "c">>,
       why |-> "base64"],
      [text |-> <<".", ".">>,
       why |-> "json"],
      \* hello
      [text |-> JwtOf(<<104, 101, 108, 108, 111>>),
       why |-> "json"],
      \* [1]
      [text |-> JwtOf(<<91, 49, 93>>),
       why |-> "json"],
      \* 5
      [text |-> JwtOf(<<53>>),
       why |-> "json"],
      \* {"exp": 4120
      [text |-> JwtOf(<<123, 34, 101, 120, 112, 34, 58, 32, 52, 49, 50, 48>>),
       why |-> "json"],
      \* null
      [text |-> JwtOf(<<110, 117, 108, 108>>),
       why |-> "json"],
      \* {}
      [text |-> JwtOf(<<123, 125>>),
       why |-> "absent"],
      \* {"sub": "x"}
      [text |-> JwtOf(<<123, 34, 115, 117, 98, 34, 58, 32, 34, 120, 34, 125>>),
       why |-> "absent"],
      \* {"exp": "4120"}
      [text |-> JwtOf(<<123, 34, 101, 120, 112, 34, 58, 32, 34, 52, 49, 50, 48, 34, 125>>),
       why |-> "type"],
      \* {"exp": true}
      [text |-> JwtOf(<<123, 34, 101, 120, 112, 34, 58, 32, 116, 114, 117, 101, 125>>),
       why |-> "type"],
      \* {"exp": null}
      [text |-> JwtOf(<<123, 34, 101, 120, 112, 34, 58, 32, 110, 117, 108, 108, 125>>),
       why |-> "type"],
      \* {"sub": "x", "exp": 4120}
      [text |-> JwtOf(<<123, 34, 115, 117, 98, 34, 58, 32, 34, 120, 34, 44, 32, 34, 101, 120, 112, 34, 58, 32, 52, 49, 50, 48, 125>>),
       why |-> "ok"]
    >>

\* An issuer (the PDS): the kind of access tokens it returns; for the kind
\* "exp", the exp claim T it puts in them and the padding it keeps; for the
\* kind "text", the place T of its token in TokenTexts
Pds(kind) == [kind |-> kind, T |-> 0, pad |-> 0]
TokenKinds == {"jwt", "opaque"}

\* an issuer whose JWTs have, when issued, no more than the 30 minutes left
\* that RefreshAt is set before their expiry
ShortLived == "short"
ShortLifetime == ExpiryMargin

\* the text of the access token an issuer returns at time t
TokenText(pds, t) ==
    IF pds.kind = "opaque" THEN OpaqueText
    ELSE IF pds.kind = "jwt" THEN JwtText(t + TokenLifetime - UnixEpoch, 0)
    ELSE IF pds.kind = ShortLived THEN JwtText(t + ShortLifetime - UnixEpoch, 0)
    ELSE IF pds.kind = "text" THEN TokenTexts[pds.T].text
    ELSE IF pds.kind \in {"float", "string"} THEN JwtOf(ClaimsJsonAs(pds.T, pds.kind))
    ELSE JwtText(pds.T, pds.pad)

(* ------------------------------- the clock ----------------------------- *)
\* the clock advances by the time a JWT issued now stays unexpired for the
\* checks, by a ticker interval more than that, or by the default refresh
\* time (each is at least a ticker interval)
FreshWindow == TokenLifetime - ExpiryMargin - RefreshMargin
ClockSteps == {FreshWindow, FreshWindow + TickInterval, DefaultRefresh}

\* the values the clock can show after at most n advances
RECURSIVE ClockAfter(_)
ClockAfter(n) ==
    IF n = 0 THEN {StartTime}
    ELSE ClockAfter(n - 1) \cup {t + d : t \in ClockAfter(n - 1), d \in ClockSteps}

\* the issuers of the specifications below: of each kind, and for the kind
\* "exp" of each exp claim with each number of "=" kept
ExpClaims == {0, 7, 42, 123, 4120, 12345, 123456}
ExpIssuers ==
    {pds \in [kind : {"exp"}, T : ExpClaims, pad : 0..2] :
        pds.pad <= PaddingOf(ClaimsJson(pds.T))}
TextIssuers == {[kind |-> "text", T |-> i, pad |-> 0] : i \in DOMAIN TokenTexts}
FormIssuers == [kind : {"exp", "float", "string"}, T : ExpClaims, pad : {0}]
Issuers ==
    {Pds(kind) : kind \in TokenKinds \cup {ShortLived}}
    \cup ExpIssuers \cup TextIssuers \cup FormIssuers

\* extractTokenExpiry of the text each issuer returns at each value of the
\* clock, as a table
\* clock advances of a serving server: those of ClockSteps, and one that
\* lands between the two margins of a 23-hour RefreshAt
ServeSteps == ClockSteps \cup {DefaultRefresh - SvcMargin}

RECURSIVE ServeClockAfter(_)
ServeClockAfter(n) ==
    IF n = 0 THEN {StartTime}
    ELSE ServeClockAfter(n - 1)
         \cup {t + d : t \in ServeClockAfter(n - 1), d \in ServeSteps}

\* the times a ticker of TickInterval shows, from the start of the server
TickerTimes == {StartTime + k * TickInterval : k \in 0..MaxTicker}

IssuedExpiry ==
    [x \in (Issuers \X ClockAfter(MaxTicks))
           \cup ({Pds("jwt")} \X TickerTimes)
           \cup ({Pds(k) : k \in TokenKinds} \X ServeClockAfter(MaxTicks + 1)) |->
        extractTokenExpiry(TokenText(x[1], x[2]))] @@ <<>>

\* An access token: id is its place in the issuer's order of issuance
\* (0: the empty string), kind says whether it is a JWT, exp is what
\* extractTokenExpiry returns for its text.
NoToken == [id |-> 0, kind |-> "none", exp |-> Zero]
IssueToken(k, pds, t) ==
    [id |-> k,
     kind |-> IF pds.kind = "opaque" THEN "opaque" ELSE "jwt",
     exp |-> IssuedExpiry[<<pds, t>>]]

\* xrpc.AuthInfo (nil and the empty AuthInfo both carry no token)
NoAuthInfo == [AccessJwt |-> NoToken, RefreshJwt |-> 0]
AccessAuth(tok) == [AccessJwt |-> tok, RefreshJwt |-> 0]
RefreshAuth(rt) == [AccessJwt |-> NoToken, RefreshJwt |-> rt]

\* the result of extractTokenExpiry on the text of a token, kept with it
TokenExpiry(tok) == tok.exp

\* NewRefreshAt with the whole assumed lifetime of 24 hours as the default
NewRefreshAt_FullDay(tok, t) ==
    IF TokenExpiry(tok) = Zero
    THEN t + DefaultRefresh + 60
    ELSE TokenExpiry(tok) - ExpiryMargin

\* NewRefreshAt without the fallback for an expiry that cannot be extracted
NewRefreshAt_NoFallback(tok, t) == TokenExpiry(tok) - ExpiryMargin

\* the RefreshAt stored after a session was obtained at time t
NewRefreshAt(tok, t) ==
    IF TokenExpiry(tok) = Zero
    THEN t + DefaultRefresh
    ELSE TokenExpiry(tok) - ExpiryMargin

\* TokenExpired forcing a refresh on every call
TokenExpired_Forced(refreshAt, t) == TRUE

\* TokenExpired with Before for After
TokenExpired_Before(refreshAt, t) == refreshAt = Zero \/ t < refreshAt - RefreshMargin

\* tokenExpired of refreshAuth and startBackgroundTokenRefresh
TokenExpired(refreshAt, t) == refreshAt = Zero \/ t > refreshAt - RefreshMargin

\* needsRefresh of the setupServer goroutine
NeedsRefresh(refreshAt, t) == refreshAt = Zero \/ t > refreshAt - SvcMargin

\* StoreSession clearing the password once a session is stored
StoreSession_ClearPassword(a, resp, t) ==
    [a EXCEPT !.Token = resp.access,
              !.RefreshToken = resp.refresh,
              !.RefreshAt = NewRefreshAt(resp.access, t),
              !.Password = ""]

\* StoreSession leaving Token as it was
StoreSession_KeepToken(a, resp, t) ==
    [a EXCEPT !.RefreshToken = resp.refresh,
              !.RefreshAt = NewRefreshAt(resp.access, t)]

\* the three fields a successful refresh stores, and the outbound client's Auth
StoreSession(a, resp, t) ==
    [a EXCEPT !.Token = resp.access,
              !.RefreshToken = resp.refresh,
              !.RefreshAt = NewRefreshAt(resp.access, t)]

VARIABLES
    auth,       \* srv.auth: Handle, Password, Token, RefreshToken, RefreshAt
    xrpcAuth,   \* srv.xrpcc.Auth
    writer,     \* authMutex: the goroutine holding the write lock, or NoOne
    readers,    \* authMutex: the goroutines holding a read lock
    pc,         \* where each goroutine is
    loc,        \* each goroutine's local variables
    now,        \* wall clock
    ticks,      \* clock advances so far
    fired,      \* the tickers with a tick waiting in their channel
    cancelled,  \* refreshCtx is done
    issued,     \* sessions the issuer has handed out
    failed,     \* transport calls that failed since the clock last advanced
    calls       \* transport calls made since the clock last advanced

vars == <<auth, xrpcAuth, writer, readers, pc, loc, now, ticks, fired,
          cancelled, issued, failed, calls>>

NoResp == [ok |-> FALSE, access |-> NoToken, refresh |-> 0]

\* a goroutine's locals: tokenExpired, tempAuth, refreshToken and the session
\* or error of its last transport call (resp), the error it returns (err);
\* and for the properties: the time of its last check (checkAt), srv.auth and
\* the client's Auth when it took the write lock (entry), the transport calls
\* of this invocation in order (hist), the refresh token its request carried
NoLoc == [tokenExpired |-> FALSE, tempAuth |-> NoAuthInfo, resp |-> NoResp,
          refreshToken |-> 0, err |-> "none", checkAt |-> Zero,
          entry |-> <<>>, hist |-> <<>>, presented |-> 0]

\* transport calls by caller: request goroutines, the two background loops
NoCalls == [req |-> 0, bg |-> 0, svc |-> 0]
NoFailed == [create |-> FALSE, refresh |-> FALSE]
Kind(p) == p[1]

\* main.go builds AuthConfig with PDS, Handle and Password only.  The PDS is
\* the issuer: one whose access tokens are JWTs with an exp claim, or one
\* whose access tokens extractTokenExpiry cannot read.
NewAuthConfig(pds) ==
    [PDS |-> pds, Handle |-> "handle", Password |-> "password",
     Token |-> NoToken, RefreshToken |-> 0, RefreshAt |-> Zero]

\* srv.auth is nil when no PDS is configured (main.go builds AuthConfig only
\* beside a PDS host); no field of it is read then
NilAuth ==
    [PDS |-> Pds("none"), Handle |-> "", Password |-> "",
     Token |-> NoToken, RefreshToken |-> 0, RefreshAt |-> Zero]

\* The state after construction, no request having arrived; bgs are the
\* background loops that run, and the model starts when their ticker (started
\* with the loop) has its first tick ready.
InitState(a, bgs) ==
    /\ auth = a
    /\ xrpcAuth = NoAuthInfo
    /\ writer = NoOne
    /\ readers = {}
    /\ pc = [p \in Procs |-> IF p \in Reqs THEN "rf_rlock"
                           ELSE IF p \in bgs THEN "select" ELSE "absent"]
    /\ loc = [p \in Procs |-> NoLoc]
    /\ now = StartTime
    /\ ticks = 0
    /\ fired = bgs
    /\ cancelled = FALSE
    /\ issued = 0
    /\ failed = NoFailed
    /\ calls = NoCalls

\* a server with a PDS configured
InitWith(bgs) == \E kind \in TokenKinds : InitState(NewAuthConfig(Pds(kind)), bgs)

\* a server without one: setupServer starts no background refresher
InitNoAuth == InitState(NilAuth, {})

\* A server with a PDS runs one background refresher (srv.refreshCancel
\* cancels it): the goroutine setupServer starts, or
\* startBackgroundTokenRefresh.
Init == (\E b \in {Bg, Svc} : InitWith({b})) \/ InitNoAuth

(* ------------------------------ the issuer ----------------------------- *)
\* The answers the issuer may give to the next session request at time t:
\* a session with tokens of its kind, or an error.
Answers(t) ==
    {[ok |-> TRUE, access |-> IssueToken(issued + 1, auth.PDS, t), refresh |-> issued + 1],
     NoResp}

\* ServerCreateSession, up to the issuer's answer
CreateSend(p, next) ==
    \E r \in Answers(now) :
        /\ loc' = [loc EXCEPT ![p].resp = r,
                              ![p].hist = Append(@, [op |-> "create", ok |-> r.ok])]
        /\ issued' = IF r.ok THEN issued + 1 ELSE issued
        /\ failed' = [failed EXCEPT !.create = @ \/ ~r.ok]
        /\ calls' = [calls EXCEPT ![Kind(p)] = @ + 1]
        /\ pc' = [pc EXCEPT ![p] = next]

\* ServerRefreshSession, up to the issuer's answer: the request carries the
\* RefreshJwt of the client's Auth at the time it is built
RefreshSend(p, next) ==
    \E r \in Answers(now) :
        /\ loc' = [loc EXCEPT ![p].resp = r,
                              ![p].hist = Append(@, [op |-> "refresh", ok |-> r.ok]),
                              ![p].presented = xrpcAuth.RefreshJwt]
        /\ issued' = IF r.ok THEN issued + 1 ELSE issued
        /\ failed' = [failed EXCEPT !.refresh = @ \/ ~r.ok]
        /\ calls' = [calls EXCEPT ![Kind(p)] = @ + 1]
        /\ pc' = [pc EXCEPT ![p] = next]

(* ------------------------------ authMutex ------------------------------ *)
CanRLock == writer = NoOne
CanLock == writer = NoOne /\ readers = {}

(* --------------------------- Server.refreshAuth ------------------------ *)
\* The request goroutines run the same code: they are numbered in the order
\* in which they reach refreshAuth.
InOrder(p) == \A q \in Reqs : q[2] < p[2] => pc[q] # "rf_rlock"

\* the result a returned call leaves behind
Returned(e) == [NoLoc EXCEPT !.err = e]

\* if srv.auth == nil: the error is returned before any lock is taken
RfNoConfig(p) ==
    /\ pc[p] = "rf_rlock"
    /\ InOrder(p)
    /\ auth = NilAuth
    /\ pc' = [pc EXCEPT ![p] = "rf_done"]
    /\ loc' = [loc EXCEPT ![p] = Returned("no auth configuration")]
    /\ UNCHANGED <<auth, xrpcAuth, writer, readers, now, ticks, fired,
                   cancelled, issued, failed, calls>>

\* RfRLock without the nil check before it
RfRLock_NoNilCheck(p) ==
    /\ pc[p] = "rf_rlock"
    /\ InOrder(p)
    /\ CanRLock
    /\ readers' = readers \cup {p}
    /\ pc' = [pc EXCEPT ![p] = "rf_check"]
    /\ UNCHANGED <<auth, xrpcAuth, writer, loc, now, ticks, fired,
                   cancelled, issued, failed, calls>>

\* srv.authMutex.RLock()
RfRLock(p) ==
    /\ pc[p] = "rf_rlock"
    /\ InOrder(p)
    /\ auth # NilAuth
    /\ CanRLock
    /\ readers' = readers \cup {p}
    /\ pc' = [pc EXCEPT ![p] = "rf_check"]
    /\ UNCHANGED <<auth, xrpcAuth, writer, loc, now, ticks, fired,
                   cancelled, issued, failed, calls>>

\* the first check, under the read lock (srv.auth is not nil)
RfCheck(p) ==
    /\ pc[p] = "rf_check"
    /\ loc' = [loc EXCEPT ![p].tokenExpired = TokenExpired(auth.RefreshAt, now),
                          ![p].checkAt = now]
    /\ pc' = [pc EXCEPT ![p] = "rf_runlock"]
    /\ UNCHANGED <<auth, xrpcAuth, writer, readers, now, ticks, fired,
                   cancelled, issued, failed, calls>>

\* RfRUnlock going on to the write lock whatever the first check found
RfRUnlock_AlwaysLock(p) ==
    /\ pc[p] = "rf_runlock"
    /\ readers' = readers \ {p}
    /\ pc' = [pc EXCEPT ![p] = "rf_lock"]
    /\ UNCHANGED <<auth, xrpcAuth, writer, loc, now, ticks, fired,
                   cancelled, issued, failed, calls>>

\* srv.authMutex.RUnlock(), and return nil when no refresh is needed
RfRUnlock(p) ==
    /\ pc[p] = "rf_runlock"
    /\ readers' = readers \ {p}
    /\ IF loc[p].tokenExpired
       THEN /\ pc' = [pc EXCEPT ![p] = "rf_lock"]
            /\ UNCHANGED loc
       ELSE /\ pc' = [pc EXCEPT ![p] = "rf_done"]
            /\ loc' = [loc EXCEPT ![p] = Returned("nil")]
    /\ UNCHANGED <<auth, xrpcAuth, writer, now, ticks, fired,
                   cancelled, issued, failed, calls>>

\* srv.authMutex.Lock()
RfLock(p) ==
    /\ pc[p] = "rf_lock"
    /\ CanLock
    /\ writer' = p
    /\ loc' = [loc EXCEPT ![p].entry = <<auth, xrpcAuth>>]
    /\ pc' = [pc EXCEPT ![p] = "rf_recheck"]
    /\ UNCHANGED <<auth, xrpcAuth, readers, now, ticks, fired,
                   cancelled, issued, failed, calls>>

\* the refresh a stale credential gets: a first session when there is no
\* token yet, else the refresh token when there is one (the client's Auth is
\* saved and swapped for it), else a new session
RfBranch(p) ==
    IF auth.Token = NoToken THEN
        /\ loc' = [loc EXCEPT ![p].tokenExpired = TRUE, ![p].checkAt = now]
        /\ pc' = [pc EXCEPT ![p] = "rf_init_send"]
        /\ UNCHANGED xrpcAuth
    ELSE IF auth.RefreshToken # 0 THEN
        /\ loc' = [loc EXCEPT ![p].tokenExpired = TRUE, ![p].checkAt = now,
                              ![p].tempAuth = xrpcAuth]
        /\ xrpcAuth' = RefreshAuth(auth.RefreshToken)
        /\ pc' = [pc EXCEPT ![p] = "rf_refresh_send"]
    ELSE
        /\ loc' = [loc EXCEPT ![p].tokenExpired = TRUE, ![p].checkAt = now]
        /\ pc' = [pc EXCEPT ![p] = "rf_create_send"]
        /\ UNCHANGED xrpcAuth

\* RfRecheck without the second check
RfRecheck_NoDoubleCheck(p) ==
    /\ pc[p] = "rf_recheck"
    /\ RfBranch(p)
    /\ UNCHANGED <<auth, writer, readers, now, ticks, fired,
                   cancelled, issued, failed, calls>>

\* the second check under the write lock, and the choice of the branch
\* RfRecheck returning on a fresh credential with the write lock still held
RfRecheck_ReturnLocked(p) ==
    /\ pc[p] = "rf_recheck"
    /\ IF ~TokenExpired(auth.RefreshAt, now) THEN
            /\ loc' = [loc EXCEPT ![p] = Returned("nil")]
            /\ pc' = [pc EXCEPT ![p] = "rf_done"]
            /\ UNCHANGED xrpcAuth
       ELSE RfBranch(p)
    /\ UNCHANGED <<auth, writer, readers, now, ticks, fired,
                   cancelled, issued, failed, calls>>

RfRecheck(p) ==
    /\ pc[p] = "rf_recheck"
    /\ IF ~TokenExpired(auth.RefreshAt, now) THEN
            /\ loc' = [loc EXCEPT ![p].tokenExpired = FALSE, ![p].checkAt = now,
                                  ![p].err = "nil"]
            /\ pc' = [pc EXCEPT ![p] = "rf_unlock"]
            /\ UNCHANGED xrpcAuth
       ELSE RfBranch(p)
    /\ UNCHANGED <<auth, writer, readers, now, ticks, fired,
                   cancelled, issued, failed, calls>>

\* ServerCreateSession of the first authentication (no token yet)
RfInitSend(p) ==
    /\ pc[p] = "rf_init_send"
    /\ CreateSend(p, "rf_init_recv")
    /\ UNCHANGED <<auth, xrpcAuth, writer, readers, now, ticks, fired,
                   cancelled>>

\* RfStoreCreated storing the session before looking at the error
RfStoreCreated_IgnoreError(p, errText) ==
    /\ auth' = StoreSession(auth, loc[p].resp, now)
    /\ xrpcAuth' = AccessAuth(loc[p].resp.access)
    /\ loc' = [loc EXCEPT ![p].err = IF loc[p].resp.ok THEN "nil" ELSE errText]

\* RfStoreCreated returning nil after a failed ServerCreateSession
RfStoreCreated_NilOnError(p, errText) ==
    IF loc[p].resp.ok THEN
        /\ auth' = StoreSession(auth, loc[p].resp, now)
        /\ xrpcAuth' = AccessAuth(loc[p].resp.access)
        /\ loc' = [loc EXCEPT ![p].err = "nil"]
    ELSE
        /\ loc' = [loc EXCEPT ![p].err = "nil"]
        /\ UNCHANGED <<auth, xrpcAuth>>

\* a created session is stored; a failure is returned
RfStoreCreated(p, errText) ==
    IF loc[p].resp.ok THEN
        /\ auth' = StoreSession(auth, loc[p].resp, now)
        /\ xrpcAuth' = AccessAuth(loc[p].resp.access)
        /\ loc' = [loc EXCEPT ![p].err = "nil"]
    ELSE
        /\ loc' = [loc EXCEPT ![p].err = errText]
        /\ UNCHANGED <<auth, xrpcAuth>>

\* RfInitRecv trying again after a failed ServerCreateSession
RfInitRecv_Retry(p) ==
    /\ pc[p] = "rf_init_recv"
    /\ RfStoreCreated(p, "failed to create session")
    /\ pc' = [pc EXCEPT ![p] = IF loc[p].resp.ok THEN "rf_unlock" ELSE "rf_init_send"]
    /\ UNCHANGED <<writer, readers, now, ticks, fired,
                   cancelled, issued, failed, calls>>

RfInitRecv(p) ==
    /\ pc[p] = "rf_init_recv"
    /\ RfStoreCreated(p, "failed to create session")
    /\ pc' = [pc EXCEPT ![p] = "rf_unlock"]
    /\ UNCHANGED <<writer, readers, now, ticks, fired,
                   cancelled, issued, failed, calls>>

\* ServerRefreshSession with the refresh token in the client's Auth
RfRefreshSend(p) ==
    /\ pc[p] = "rf_refresh_send"
    /\ RefreshSend(p, "rf_refresh_recv")
    /\ UNCHANGED <<auth, xrpcAuth, writer, readers, now, ticks, fired,
                   cancelled>>

\* RfRefreshRecv creating a new session after a refresh that succeeded too
RfRefreshRecv_AlwaysFallback(p) ==
    /\ pc[p] = "rf_refresh_recv"
    /\ xrpcAuth' = loc[p].tempAuth
    /\ pc' = [pc EXCEPT ![p] = "rf_create_send"]
    /\ UNCHANGED <<auth, loc, writer, readers, now, ticks, fired,
                   cancelled, issued, failed, calls>>

\* the saved Auth is restored; a refreshed session is stored, a failure
\* falls back to creating a new session
RfRefreshRecv(p) ==
    /\ pc[p] = "rf_refresh_recv"
    /\ IF loc[p].resp.ok THEN
            /\ auth' = StoreSession(auth, loc[p].resp, now)
            /\ xrpcAuth' = AccessAuth(loc[p].resp.access)
            /\ loc' = [loc EXCEPT ![p].err = "nil"]
            /\ pc' = [pc EXCEPT ![p] = "rf_unlock"]
       ELSE
            /\ xrpcAuth' = loc[p].tempAuth
            /\ pc' = [pc EXCEPT ![p] = "rf_create_send"]
            /\ UNCHANGED <<auth, loc>>
    /\ UNCHANGED <<writer, readers, now, ticks, fired,
                   cancelled, issued, failed, calls>>

\* ServerCreateSession of the fallback
RfCreateSend(p) ==
    /\ pc[p] = "rf_create_send"
    /\ CreateSend(p, "rf_create_recv")
    /\ UNCHANGED <<auth, xrpcAuth, writer, readers, now, ticks, fired,
                   cancelled>>

\* RfCreateRecv storing the access token and leaving RefreshToken as it was
RfCreateRecv_KeepRefreshToken(p) ==
    /\ pc[p] = "rf_create_recv"
    /\ IF loc[p].resp.ok THEN
            /\ auth' = [StoreSession(auth, loc[p].resp, now) EXCEPT
                            !.RefreshToken = auth.RefreshToken]
            /\ xrpcAuth' = AccessAuth(loc[p].resp.access)
            /\ loc' = [loc EXCEPT ![p].err = "nil"]
       ELSE
            /\ loc' = [loc EXCEPT ![p].err = "failed to create new session"]
            /\ UNCHANGED <<auth, xrpcAuth>>
    /\ pc' = [pc EXCEPT ![p] = "rf_unlock"]
    /\ UNCHANGED <<writer, readers, now, ticks, fired,
                   cancelled, issued, failed, calls>>

\* the fallback's session is stored; a failure is returned
RfCreateRecv(p) ==
    /\ pc[p] = "rf_create_recv"
    /\ RfStoreCreated(p, "failed to create new session")
    /\ pc' = [pc EXCEPT ![p] = "rf_unlock"]
    /\ UNCHANGED <<writer, readers, now, ticks, fired,
                   cancelled, issued, failed, calls>>

\* RfUnlock returning nil whatever the call met
RfUnlock_DropError(p) ==
    /\ pc[p] = "rf_unlock"
    /\ writer' = NoOne
    /\ pc' = [pc EXCEPT ![p] = "rf_done"]
    /\ loc' = [loc EXCEPT ![p] = Returned("nil")]
    /\ UNCHANGED <<auth, xrpcAuth, readers, now, ticks, fired,
                   cancelled, issued, failed, calls>>

\* the deferred srv.authMutex.Unlock() and the return
RfUnlock(p) ==
    /\ pc[p] = "rf_unlock"
    /\ writer' = NoOne
    /\ pc' = [pc EXCEPT ![p] = "rf_done"]
    /\ loc' = [loc EXCEPT ![p] = Returned(loc[p].err)]
    /\ UNCHANGED <<auth, xrpcAuth, readers, now, ticks, fired,
                   cancelled, issued, failed, calls>>

refreshAuth(p) ==
    \/ RfNoConfig(p)
    \/ RfRLock(p) \/ RfCheck(p) \/ RfRUnlock(p) \/ RfLock(p) \/ RfRecheck(p)
    \/ RfInitSend(p) \/ RfInitRecv(p) \/ RfRefreshSend(p) \/ RfRefreshRecv(p)
    \/ RfCreateSend(p) \/ RfCreateRecv(p) \/ RfUnlock(p)

(* ------------- the request middleware and an API handler -------------- *)
\* needsRefresh, read between RLock and RUnlock; next(c) when it is false
MwCheck(p) ==
    /\ pc[p] = "mw_check"
    /\ CanRLock
    /\ pc' = [pc EXCEPT ![p] =
                IF NeedsRefresh(auth.RefreshAt, now) THEN "mw_create_send"
                ELSE "rf_rlock"]
    /\ UNCHANGED <<auth, xrpcAuth, writer, readers, loc, now, ticks, fired,
                   cancelled, issued, failed, calls>>

\* atproto.ServerCreateSession, no lock held
MwCreateSend(p) ==
    /\ pc[p] = "mw_create_send"
    /\ CreateSend(p, "mw_create_recv")
    /\ UNCHANGED <<auth, xrpcAuth, writer, readers, now, ticks, fired, cancelled>>

\* on an error: echo.NewHTTPError(http.StatusUnauthorized, "authentication failed")
MwCreateRecv(p) ==
    /\ pc[p] = "mw_create_recv"
    /\ IF loc[p].resp.ok
       THEN /\ pc' = [pc EXCEPT ![p] = "mw_lock"]
            /\ UNCHANGED loc
       ELSE /\ pc' = [pc EXCEPT ![p] = "resp_401"]
            /\ loc' = [loc EXCEPT ![p] = Returned("authentication failed")]
    /\ UNCHANGED <<auth, xrpcAuth, writer, readers, now, ticks, fired,
                   cancelled, issued, failed, calls>>

MwLock(p) ==
    /\ pc[p] = "mw_lock"
    /\ CanLock
    /\ writer' = p
    /\ pc' = [pc EXCEPT ![p] = "mw_write"]
    /\ UNCHANGED <<auth, xrpcAuth, readers, loc, now, ticks, fired,
                   cancelled, issued, failed, calls>>

\* Token, RefreshAt and the client's Auth are updated; then next(c): the
\* handler, which calls ensureValidToken, which calls refreshAuth
MwWrite(p) ==
    /\ pc[p] = "mw_write"
    /\ auth' = [auth EXCEPT !.Token = loc[p].resp.access,
                            !.RefreshAt = now + DefaultRefresh]
    /\ xrpcAuth' = AccessAuth(loc[p].resp.access)
    /\ writer' = NoOne
    /\ loc' = [loc EXCEPT ![p] = NoLoc]
    /\ pc' = [pc EXCEPT ![p] = "rf_rlock"]
    /\ UNCHANGED <<readers, now, ticks, fired, cancelled, issued, failed, calls>>

\* handleGetProfile after ensureValidToken: on an error
\* echo.NewHTTPError(http.StatusInternalServerError, "Authentication error: ..."),
\* else bsky.ActorGetProfile with srv.xrpcc
HandlerReturn(p) ==
    /\ pc[p] = "rf_done"
    /\ pc' = [pc EXCEPT ![p] = IF loc[p].err = "nil" THEN "fetch" ELSE "resp_500"]
    /\ UNCHANGED <<auth, xrpcAuth, writer, readers, loc, now, ticks, fired,
                   cancelled, issued, failed, calls>>

\* ensureValidToken as a handler calls it: refreshAuth.  Behind the
\* middleware a request that gets this far has seen a non-zero RefreshAt,
\* which is stored together with a Token, so the branch of refreshAuth for
\* an empty Token (RfInitSend, RfInitRecv) is never entered.
ensureValidToken(p) ==
    \/ RfNoConfig(p)
    \/ RfRLock(p) \/ RfCheck(p) \/ RfRUnlock(p) \/ RfLock(p) \/ RfRecheck(p)
    \/ RfRefreshSend(p) \/ RfRefreshRecv(p)
    \/ RfCreateSend(p) \/ RfCreateRecv(p) \/ RfUnlock(p)

\* an inbound API request, from the middleware to the handler's answer
serve(p) ==
    \/ MwCheck(p) \/ MwCreateSend(p) \/ MwCreateRecv(p) \/ MwLock(p) \/ MwWrite(p)
    \/ ensureValidToken(p)
    \/ HandlerReturn(p)

\* the HTTP status of a request that was answered without a fetch
Status(p) ==
    IF pc[p] = "resp_401" THEN 401 ELSE IF pc[p] = "resp_500" THEN 500 ELSE 0

(* ------------------- Server.startBackgroundTokenRefresh ---------------- *)
\* the loop without its ctx.Done() case
BgStop_NoDoneCase ==
    /\ FALSE
    /\ UNCHANGED vars

\* case <-ctx.Done(): return
BgStop ==
    /\ pc[Bg] = "select"
    /\ cancelled
    /\ pc' = [pc EXCEPT ![Bg] = "stopped"]
    /\ UNCHANGED <<auth, xrpcAuth, writer, readers, loc, now, ticks, fired,
                   cancelled, issued, failed, calls>>

\* case <-ticker.C: the check between RLock and RUnlock
BgTick ==
    /\ pc[Bg] = "select"
    /\ Bg \in fired
    /\ CanRLock
    /\ fired' = fired \ {Bg}
    /\ pc' = [pc EXCEPT ![Bg] =
                IF TokenExpired(auth.RefreshAt, now) THEN "bg_read" ELSE "select"]
    /\ UNCHANGED <<auth, xrpcAuth, writer, readers, loc, now, ticks,
                   cancelled, issued, failed, calls>>

\* hasRefreshToken and refreshToken, read between RLock and RUnlock
BgRead ==
    /\ pc[Bg] = "bg_read"
    /\ CanRLock
    /\ loc' = [loc EXCEPT ![Bg].refreshToken = auth.RefreshToken]
    /\ pc' = [pc EXCEPT ![Bg] =
                IF auth.RefreshToken # 0 THEN "bg_swap" ELSE "bg_create_send"]
    /\ UNCHANGED <<auth, xrpcAuth, writer, readers, now, ticks, fired,
                   cancelled, issued, failed, calls>>

\* tempAuth := srv.xrpcc.Auth; srv.xrpcc.Auth = &xrpc.AuthInfo{RefreshJwt: ...}
BgSwap ==
    /\ pc[Bg] = "bg_swap"
    /\ loc' = [loc EXCEPT ![Bg].tempAuth = xrpcAuth]
    /\ xrpcAuth' = RefreshAuth(loc[Bg].refreshToken)
    /\ pc' = [pc EXCEPT ![Bg] = "bg_refresh_send"]
    /\ UNCHANGED <<auth, writer, readers, now, ticks, fired,
                   cancelled, issued, failed, calls>>

BgRefreshSend ==
    /\ pc[Bg] = "bg_refresh_send"
    /\ RefreshSend(Bg, "bg_refresh_recv")
    /\ UNCHANGED <<auth, xrpcAuth, writer, readers, now, ticks, fired, cancelled>>

\* srv.xrpcc.Auth = tempAuth; on failure fall back to a new session
BgRefreshRecv ==
    /\ pc[Bg] = "bg_refresh_recv"
    /\ xrpcAuth' = loc[Bg].tempAuth
    /\ pc' = [pc EXCEPT ![Bg] =
                IF loc[Bg].resp.ok THEN "bg_lock" ELSE "bg_create_send"]
    /\ UNCHANGED <<auth, writer, readers, loc, now, ticks, fired,
                   cancelled, issued, failed, calls>>

BgCreateSend ==
    /\ pc[Bg] = "bg_create_send"
    /\ CreateSend(Bg, "bg_create_recv")
    /\ UNCHANGED <<auth, xrpcAuth, writer, readers, now, ticks, fired, cancelled>>

\* BgCreateRecv returning from the loop on a failed ServerCreateSession
BgCreateRecv_ReturnOnError ==
    /\ pc[Bg] = "bg_create_recv"
    /\ pc' = [pc EXCEPT ![Bg] = IF loc[Bg].resp.ok THEN "bg_lock" ELSE "stopped"]
    /\ UNCHANGED <<auth, xrpcAuth, writer, readers, loc, now, ticks, fired,
                   cancelled, issued, failed, calls>>

\* a failed ServerCreateSession is logged and the loop continues
BgCreateRecv ==
    /\ pc[Bg] = "bg_create_recv"
    /\ IF loc[Bg].resp.ok
       THEN /\ pc' = [pc EXCEPT ![Bg] = "bg_lock"]
            /\ UNCHANGED loc
       ELSE /\ pc' = [pc EXCEPT ![Bg] = "select"]
            /\ loc' = [loc EXCEPT ![Bg] = NoLoc]
    /\ UNCHANGED <<auth, xrpcAuth, writer, readers, now, ticks, fired,
                   cancelled, issued, failed, calls>>

\* BgLock without waiting for the lock
BgLock_NoLock ==
    /\ pc[Bg] = "bg_lock"
    /\ pc' = [pc EXCEPT ![Bg] = "bg_write"]
    /\ UNCHANGED <<auth, xrpcAuth, writer, readers, loc, now, ticks, fired,
                   cancelled, issued, failed, calls>>

\* srv.authMutex.Lock()
BgLock ==
    /\ pc[Bg] = "bg_lock"
    /\ CanLock
    /\ writer' = Bg
    /\ pc' = [pc EXCEPT ![Bg] = "bg_write"]
    /\ UNCHANGED <<auth, xrpcAuth, readers, loc, now, ticks, fired,
                   cancelled, issued, failed, calls>>

\* the update under the lock, and srv.authMutex.Unlock()
BgWrite ==
    /\ pc[Bg] = "bg_write"
    /\ auth' = StoreSession(auth, loc[Bg].resp, now)
    /\ xrpcAuth' = AccessAuth(loc[Bg].resp.access)
    /\ writer' = NoOne
    /\ loc' = [loc EXCEPT ![Bg] = NoLoc]
    /\ pc' = [pc EXCEPT ![Bg] = "select"]
    /\ UNCHANGED <<readers, now, ticks, fired, cancelled, issued, failed, calls>>

\* the loop's ticker case (the ctx.Done() case is BgStop)
startBackgroundTokenRefresh ==
    \/ BgTick \/ BgRead \/ BgSwap \/ BgRefreshSend \/ BgRefreshRecv
    \/ BgCreateSend \/ BgCreateRecv \/ BgLock \/ BgWrite

(* ----------------- the background goroutine of setupServer ------------- *)
SvcStop ==
    /\ pc[Svc] = "select"
    /\ cancelled
    /\ pc' = [pc EXCEPT ![Svc] = "stopped"]
    /\ UNCHANGED <<auth, xrpcAuth, writer, readers, loc, now, ticks, fired,
                   cancelled, issued, failed, calls>>

\* case <-ticker.C: needsRefresh, read between RLock and RUnlock
SvcTick ==
    /\ pc[Svc] = "select"
    /\ Svc \in fired
    /\ CanRLock
    /\ fired' = fired \ {Svc}
    /\ pc' = [pc EXCEPT ![Svc] =
                IF NeedsRefresh(auth.RefreshAt, now) THEN "svc_create_send" ELSE "select"]
    /\ UNCHANGED <<auth, xrpcAuth, writer, readers, loc, now, ticks,
                   cancelled, issued, failed, calls>>

SvcCreateSend ==
    /\ pc[Svc] = "svc_create_send"
    /\ CreateSend(Svc, "svc_create_recv")
    /\ UNCHANGED <<auth, xrpcAuth, writer, readers, now, ticks, fired, cancelled>>

SvcCreateRecv ==
    /\ pc[Svc] = "svc_create_recv"
    /\ IF loc[Svc].resp.ok
       THEN /\ pc' = [pc EXCEPT ![Svc] = "svc_lock"]
            /\ UNCHANGED loc
       ELSE /\ pc' = [pc EXCEPT ![Svc] = "select"]
            /\ loc' = [loc EXCEPT ![Svc] = NoLoc]
    /\ UNCHANGED <<auth, xrpcAuth, writer, readers, now, ticks, fired,
                   cancelled, issued, failed, calls>>

SvcLock ==
    /\ pc[Svc] = "svc_lock"
    /\ CanLock
    /\ writer' = Svc
    /\ pc' = [pc EXCEPT ![Svc] = "svc_write"]
    /\ UNCHANGED <<auth, xrpcAuth, readers, loc, now, ticks, fired,
                   cancelled, issued, failed, calls>>

\* Token, RefreshAt and the client's Auth are updated; RefreshToken is not
SvcWrite ==
    /\ pc[Svc] = "svc_write"
    /\ auth' = [auth EXCEPT !.Token = loc[Svc].resp.access,
                            !.RefreshAt = now + DefaultRefresh]
    /\ xrpcAuth' = AccessAuth(loc[Svc].resp.access)
    /\ writer' = NoOne
    /\ loc' = [loc EXCEPT ![Svc] = NoLoc]
    /\ pc' = [pc EXCEPT ![Svc] = "select"]
    /\ UNCHANGED <<readers, now, ticks, fired, cancelled, issued, failed, calls>>

\* the goroutine's ticker case (the refreshCtx.Done() case is SvcStop)
setupServerRefresh ==
    \/ SvcTick \/ SvcCreateSend \/ SvcCreateRecv \/ SvcLock \/ SvcWrite

\* startServer calls srv.refreshCancel()
Cancel ==
    /\ ~cancelled
    /\ cancelled' = TRUE
    /\ UNCHANGED <<auth, xrpcAuth, writer, readers, pc, loc, now, ticks, fired,
                   issued, failed, calls>>

\* startServer's select, case <-ctx.Done(): srv.refreshCancel() when it is
\* not nil (setupServer sets it beside the refresher it starts)
SsCtxDone ==
    /\ pc[Main] = "ss_select"
    /\ cancelled' = (cancelled \/ auth # NilAuth)
    /\ pc' = [pc EXCEPT ![Main] = "ss_shutdown"]
    /\ UNCHANGED <<auth, xrpcAuth, writer, readers, loc, now, ticks, fired,
                   issued, failed, calls>>

\* srv.e.Shutdown: its error or nil is returned
SsShutdown ==
    /\ pc[Main] = "ss_shutdown"
    /\ \E e \in {"nil", "failed to shutdown server"} :
            loc' = [loc EXCEPT ![Main] = Returned(e)]
    /\ pc' = [pc EXCEPT ![Main] = "ss_returned"]
    /\ UNCHANGED <<auth, xrpcAuth, writer, readers, now, ticks, fired,
                   cancelled, issued, failed, calls>>

\* SsStartError returning the error without calling srv.refreshCancel
SsStartError_NoCancel ==
    /\ pc[Main] = "ss_select"
    /\ loc' = [loc EXCEPT ![Main] = Returned("failed to start server")]
    /\ pc' = [pc EXCEPT ![Main] = "ss_returned"]
    /\ UNCHANGED <<auth, xrpcAuth, writer, readers, now, ticks, fired,
                   cancelled, issued, failed, calls>>

\* case err := <-errChan: srv.refreshCancel() when it is not nil, return err
SsStartError ==
    /\ pc[Main] = "ss_select"
    /\ cancelled' = (cancelled \/ auth # NilAuth)
    /\ loc' = [loc EXCEPT ![Main] = Returned("failed to start server")]
    /\ pc' = [pc EXCEPT ![Main] = "ss_returned"]
    /\ UNCHANGED <<auth, xrpcAuth, writer, readers, now, ticks, fired,
                   issued, failed, calls>>

startServer == SsCtxDone \/ SsShutdown \/ SsStartError

\* time passes; the tickers (5 minutes) have a tick waiting afterwards
Tick ==
    /\ ticks < MaxTicks
    /\ \E d \in ClockSteps : now' = now + d
    /\ ticks' = ticks + 1
    /\ fired' = {b \in {Bg, Svc} : pc[b] # "absent"}
    /\ failed' = NoFailed
    /\ calls' = NoCalls
    /\ UNCHANGED <<auth, xrpcAuth, writer, readers, pc, loc, cancelled, issued>>

\* time.NewTicker(5 * time.Minute): the clock reaches the next tick; the
\* refresher has taken the tick before and is back at its select
TickerTick ==
    /\ now < StartTime + MaxTicker * TickInterval
    /\ \A b \in {Bg, Svc} : pc[b] \in {"absent", "stopped", "select"} /\ b \notin fired
    /\ now' = now + TickInterval
    /\ ticks' = ticks + 1
    /\ fired' = {b \in {Bg, Svc} : pc[b] # "absent"}
    /\ failed' = NoFailed
    /\ calls' = NoCalls
    /\ UNCHANGED <<auth, xrpcAuth, writer, readers, pc, loc, cancelled, issued>>

\* every session request of the step is answered with a session
TransportSucceeds == issued' = issued => (calls' = calls \/ calls' = NoCalls)

\* time passes for a serving server
ServeTick ==
    /\ ticks < MaxTicks + 1
    /\ \E d \in ServeSteps : now' = now + d
    /\ ticks' = ticks + 1
    /\ fired' = {b \in {Bg, Svc} : pc[b] # "absent"}
    /\ failed' = NoFailed
    /\ calls' = NoCalls
    /\ UNCHANGED <<auth, xrpcAuth, writer, readers, pc, loc, cancelled, issued>>

\* between two calls of refreshAuth, after one that succeeded, RefreshAt is
\* set to one hour in the past (srv.auth.RefreshAt = time.Now().Add(-1 * time.Hour))
ForcedBack == 60
ForceExpiry ==
    /\ auth # NilAuth
    /\ auth.Token # NoToken
    /\ auth.RefreshAt # now - ForcedBack
    /\ writer = NoOne /\ readers = {}
    /\ \A p \in Reqs : pc[p] \in {"rf_rlock", "rf_done"}
    /\ \E p \in Reqs : pc[p] = "rf_done" /\ loc[p].err = "nil"
    /\ auth' = [auth EXCEPT !.RefreshAt = now - ForcedBack]
    /\ UNCHANGED <<xrpcAuth, writer, readers, pc, loc, now, ticks, fired,
                   cancelled, issued, failed, calls>>

(* ------------------------------ properties ----------------------------- *)
\* the transport calls a goroutine has made in its current invocation
NCalls(p, op) == Cardinality({i \in DOMAIN loc[p].hist : loc[p].hist[i].op = op})

AuthWritePcs == {"rf_init_recv", "rf_refresh_recv", "rf_create_recv",
                 "bg_write", "svc_write"}
AuthWriters == {p \in Procs : pc[p] \in AuthWritePcs}

\* C2: at most one goroutine (a refreshAuth caller or the background
\* refresher) is at a step that writes Token, RefreshToken or RefreshAt, it
\* holds the write lock of authMutex, and every step that changes these
\* fields is taken by the holder of the write lock.
C2_ExclusiveWrites ==
    /\ [](Cardinality(AuthWriters) <= 1 /\ \A p \in AuthWriters : writer = p)
    /\ [][auth' # auth => \E p \in Procs : writer = p /\ pc'[p] # pc[p]]_vars

\* C2: a request goroutine is about to store its session while the
\* background refresher, with a session of its own, waits for the lock.
C2_Witness ==
    \E p \in Reqs :
        /\ pc[p] = "rf_init_recv" /\ loc[p].resp.ok /\ writer = p
        /\ \/ pc[Bg] = "bg_lock" /\ loc[Bg].resp.ok
           \/ pc[Svc] = "svc_lock" /\ loc[Svc].resp.ok

EntryRefreshAt(p) == loc[p].entry[1].RefreshAt

BgTransportPcs == {"bg_refresh_send", "bg_refresh_recv", "bg_create_send",
                   "bg_create_recv", "svc_create_send", "svc_create_recv"}
RfTransportPcs == {"rf_init_send", "rf_init_recv", "rf_refresh_send",
                   "rf_refresh_recv", "rf_create_send", "rf_create_recv"}

\* C5: the background refresher makes its transport calls holding the write
\* lock, so that none overlaps a refresh of a request goroutine.
C5_BgCallsUnderLock ==
    \A b \in {Bg, Svc} :
        pc[b] \in BgTransportPcs =>
            /\ writer = b
            /\ \A p \in Reqs : pc[p] \notin RfTransportPcs

\* C6: when the transport succeeds, the background refresher and the request
\* goroutines that see the credential stale at one instant do not both make
\* transport calls, and at most two calls are made.
C6_OneRefresherPerEpisode ==
    (~failed.create /\ ~failed.refresh) =>
        /\ calls.req = 0 \/ calls.bg = 0
        /\ calls.req + calls.bg <= 2

\* C7: when no goroutine holds the write lock and there is a token, the
\* outbound client's Auth carries that token.
C7_ClientCarriesToken ==
    (writer = NoOne /\ auth.Token # NoToken) => xrpcAuth.AccessJwt = auth.Token

\* C8: every step that changes the outbound client's Auth is taken by the
\* holder of the write lock.
C8_AuthWrittenUnderLock ==
    [][xrpcAuth' # xrpcAuth => \E p \in Procs : writer = p /\ pc'[p] # pc[p]]_vars

\* C9: a call that starts with a stale credential, a token and a refresh
\* token, whose ServerRefreshSession fails and whose ServerCreateSession
\* succeeds, returns nil with the created session's tokens stored, after
\* exactly one call of each.
C9_FallbackStoresCreated ==
    \A p \in Reqs :
        (/\ pc[p] = "rf_unlock"
         /\ loc[p].entry[1].Token # NoToken /\ loc[p].entry[1].RefreshToken # 0
         /\ \E i \in DOMAIN loc[p].hist : loc[p].hist[i] = [op |-> "refresh", ok |-> FALSE]
         /\ \E i \in DOMAIN loc[p].hist : loc[p].hist[i] = [op |-> "create", ok |-> TRUE])
        => /\ loc[p].err = "nil"
           /\ loc[p].hist = <<[op |-> "refresh", ok |-> FALSE], [op |-> "create", ok |-> TRUE]>>
           /\ auth.Token = loc[p].resp.access /\ auth.Token # NoToken
           /\ auth.RefreshToken = loc[p].resp.refresh /\ auth.RefreshToken # 0
           /\ auth.Token # loc[p].entry[1].Token

\* C9: such a call is about to return.
C9_Witness ==
    \E p \in Reqs :
        /\ pc[p] = "rf_unlock" /\ loc[p].err = "nil"
        /\ loc[p].entry[1].Token # NoToken /\ loc[p].entry[1].RefreshToken # 0
        /\ loc[p].hist = <<[op |-> "refresh", ok |-> FALSE], [op |-> "create", ok |-> TRUE]>>

\* C10: a call that finds no token and whose ServerCreateSession fails
\* returns an error and leaves Token empty, RefreshToken, RefreshAt (zero)
\* and the client's Auth as they were, so that the next call creates the
\* first session again.
C10_FailedFirstSessionKeepsState ==
    \A p \in Reqs :
        (/\ pc[p] = "rf_unlock"
         /\ loc[p].entry[1].Token = NoToken
         /\ loc[p].hist # <<>> /\ ~loc[p].resp.ok)
        => /\ loc[p].err = "failed to create session"
           /\ loc[p].hist = <<[op |-> "create", ok |-> FALSE]>>
           /\ auth = loc[p].entry[1] /\ xrpcAuth = loc[p].entry[2]
           /\ auth.Token = NoToken /\ auth.RefreshAt = Zero
           /\ TokenExpired(auth.RefreshAt, now)

\* C10: after one caller's failed first session, the next caller is about
\* to create the first session.
C10_Witness ==
    \E p \in Reqs : \E q \in Reqs \ {p} :
        /\ pc[p] = "rf_done" /\ loc[p].err = "failed to create session"
        /\ pc[q] = "rf_init_send" /\ auth.Token = NoToken /\ issued = 0

\* a failed transport call of the given kind, in a goroutine's history
Failed(op) == [op |-> op, ok |-> FALSE]

\* C11: a call that finds a token and a stale credential, and whose last
\* transport call failed, returns the error of the fallback and leaves
\* srv.auth and the client's Auth as it found them; it tried the refresh
\* token exactly when there was one, and the credential is still stale.
C11_FailedRefreshKeepsState ==
    \A p \in Reqs :
        (/\ pc[p] = "rf_unlock"
         /\ loc[p].entry[1].Token # NoToken
         /\ loc[p].hist # <<>> /\ ~loc[p].resp.ok)
        => /\ loc[p].err = "failed to create new session"
           /\ loc[p].hist = IF loc[p].entry[1].RefreshToken # 0
                            THEN <<Failed("refresh"), Failed("create")>>
                            ELSE <<Failed("create")>>
           /\ auth = loc[p].entry[1] /\ xrpcAuth = loc[p].entry[2]
           /\ TokenExpired(auth.RefreshAt, now)

\* a call of refreshAuth that is returning nil
ReturnsNil(p) ==
    \/ pc[p] = "rf_runlock" /\ ~loc[p].tokenExpired
    \/ pc[p] = "rf_unlock" /\ loc[p].err = "nil"

\* C12: when refreshAuth returns nil there is a token, and in no state is
\* RefreshAt set while Token is empty.
C12_TokenWhenFresh ==
    /\ \A p \in Reqs : ReturnsNil(p) => auth.Token # NoToken
    /\ auth.RefreshAt # Zero => auth.Token # NoToken

\* C12: a call returns nil after refreshing a session that a background
\* refresher had created.
C12_Witness ==
    \E p \in Reqs :
        /\ pc[p] = "rf_unlock" /\ loc[p].err = "nil"
        /\ loc[p].hist = <<[op |-> "refresh", ok |-> TRUE]>>
        /\ issued = 2 /\ auth.Token = loc[p].resp.access /\ auth.Token # NoToken

\* C13: with no auth configuration no lock is held, no transport call is
\* made, every call of refreshAuth that has returned has returned "no auth
\* configuration", and no step changes srv.auth or the client's Auth.
C13_NoConfigOnlyFails ==
    /\ [](auth = NilAuth =>
            /\ writer = NoOne /\ readers = {}
            /\ calls = NoCalls /\ issued = 0 /\ xrpcAuth = NoAuthInfo
            /\ \A p \in Reqs :
                \/ pc[p] = "rf_rlock" /\ loc[p] = NoLoc
                \/ pc[p] = "rf_done" /\ loc[p] = Returned("no auth configuration"))
    /\ [][auth = NilAuth => auth' = auth /\ xrpcAuth' = xrpcAuth]_vars

\* C13: with no auth configuration every request goroutine has called
\* refreshAuth and got the error, before and after the clock advanced.
C13_Witness ==
    /\ auth = NilAuth /\ ticks > 0
    /\ \A p \in Reqs :
        pc[p] = "rf_done" /\ loc[p].err = "no auth configuration"

\* a call of refreshAuth that found a never-authenticated credential and
\* whose last transport call succeeded, the clock not having advanced since
\* the call's check under the write lock
FirstSession(p) ==
    /\ pc[p] = "rf_unlock" /\ loc[p].checkAt = now
    /\ loc[p].entry[1].Token = NoToken /\ loc[p].entry[1].RefreshAt = Zero
    /\ loc[p].hist # <<>> /\ loc[p].resp.ok

\* one ServerCreateSession and no ServerRefreshSession, nil returned and the
\* session's token stored
OneCreateStored(p) ==
    /\ loc[p].err = "nil"
    /\ loc[p].hist = <<[op |-> "create", ok |-> TRUE]>>
    /\ auth.Token = loc[p].resp.access /\ auth.Token # NoToken

\* C14 as stated: the first session costs one ServerCreateSession and leaves
\* RefreshAt later than the current time, whatever token was issued.
C14_FirstSessionFresh ==
    \A p \in Reqs :
        FirstSession(p) => OneCreateStored(p) /\ auth.RefreshAt > now

\* C14 amended: the first session costs one ServerCreateSession, and leaves
\* RefreshAt later than the current time when the token's expiry cannot be
\* extracted or is more than 30 minutes ahead.
C14_FirstSessionFreshIfLongLived ==
    \A p \in Reqs :
        FirstSession(p) =>
            /\ OneCreateStored(p)
            /\ (\/ TokenExpiry(auth.Token) = Zero
                \/ TokenExpiry(auth.Token) > now + ExpiryMargin)
               => auth.RefreshAt > now

\* C14: a first session with a JWT of the usual lifetime has been stored.
C14_Witness ==
    \E p \in Reqs :
        /\ FirstSession(p) /\ OneCreateStored(p)
        /\ TokenExpiry(auth.Token) = now + TokenLifetime
        /\ auth.RefreshAt > now /\ calls.req = 1

\* the stored session was issued at the current instant by the usual issuer:
\* its JWT has its whole lifetime left, or RefreshAt is 23 hours ahead
JustRefreshed ==
    /\ auth.Token # NoToken
    /\ IF TokenExpiry(auth.Token) = Zero
       THEN auth.RefreshAt = now + DefaultRefresh
       ELSE TokenExpiry(auth.Token) = now + TokenLifetime

ForcedCall(p) ==
    /\ pc[p] = "rf_unlock"
    /\ loc[p].entry[1].Token # NoToken
    /\ loc[p].entry[1].RefreshAt = loc[p].checkAt - ForcedBack
    /\ \A i \in DOMAIN loc[p].hist : loc[p].hist[i].ok

\* C16: a call of refreshAuth that finds a session whose RefreshAt is one hour
\* in the past, the transport succeeding, makes exactly one transport call,
\* returns nil and leaves a token other than the one it found.
C16_ForcedExpiryOneCall ==
    \A p \in Reqs :
        ForcedCall(p)
        => /\ Len(loc[p].hist) = 1
           /\ loc[p].err = "nil"
           /\ auth.Token = loc[p].resp.access
           /\ auth.Token # loc[p].entry[1].Token

\* C16: after a call that returned nil and the forcing of RefreshAt, a call
\* has refreshed the session with the refresh token in one transport call.
C16_Witness ==
    \E p \in Reqs : \E q \in Reqs \ {p} :
        /\ pc[q] = "rf_done" /\ loc[q].err = "nil"
        /\ ForcedCall(p)
        /\ ticks = 0
        /\ loc[p].hist = <<[op |-> "refresh", ok |-> TRUE]>>
        /\ auth.Token # loc[p].entry[1].Token

\* C17: whenever RefreshAt is set and the expiry of the stored token can be
\* extracted, RefreshAt is that expiry minus 30 minutes.
C17_RefreshAtIsExpiryMinusMargin ==
    (/\ auth # NilAuth
     /\ auth.RefreshAt # Zero
     /\ TokenExpiry(auth.Token) # Zero)
    => auth.RefreshAt = TokenExpiry(auth.Token) - ExpiryMargin

\* C18: every step that stores a token whose expiry cannot be extracted sets
\* RefreshAt to the time of the step plus 23 hours, and the call of refreshAuth
\* that takes the step has no error to return.
C18_DefaultRefreshAt ==
    [][(/\ auth'.Token # auth.Token
        /\ TokenExpiry(auth'.Token) = Zero)
       => /\ auth'.RefreshAt = now + DefaultRefresh
          /\ \A p \in Reqs : writer = p => loc'[p].err = "nil"]_vars

\* C18: a call of refreshAuth has refreshed the session with the refresh token
\* and stored a token without extractable expiry at the current instant.
C18_Witness ==
    \E p \in Reqs :
        /\ pc[p] = "rf_unlock" /\ loc[p].err = "nil"
        /\ loc[p].hist = <<[op |-> "refresh", ok |-> TRUE]>>
        /\ auth.Token = loc[p].resp.access
        /\ auth.Token # NoToken
        /\ TokenExpiry(auth.Token) = Zero
        /\ auth.RefreshAt = now + DefaultRefresh

\* "Token refresh 1 hour before expiry"
HourBeforeExpiry == 60

\* C19: a call of refreshAuth that checks, at time t, a stored token with
\* extractable expiry E finds it stale if and only if t is later than E minus
\* one hour, and under the write lock makes a transport call on the same
\* condition.
C19_StaleFromHourBeforeExpiry ==
    \A p \in Reqs :
        /\ (pc[p] = "rf_runlock" /\ TokenExpiry(auth.Token) # Zero)
           => (loc[p].tokenExpired
               <=> loc[p].checkAt > TokenExpiry(auth.Token) - HourBeforeExpiry)
        /\ (pc[p] = "rf_unlock" /\ TokenExpiry(loc[p].entry[1].Token) # Zero)
           => (loc[p].hist # <<>>
               <=> loc[p].checkAt > TokenExpiry(loc[p].entry[1].Token) - HourBeforeExpiry)

\* C20: for an issuer whose tokens are header.base64url({"exp": T}).signature
\* with any number of the "=" of the middle part kept, extractTokenExpiry
\* returns the instant T seconds after the Unix epoch for the token's text, and
\* a stored token of this issuer has RefreshAt 30 minutes before that instant.
C20_ExpClaimExtracted ==
    (auth # NilAuth /\ auth.PDS.kind = "exp")
    => /\ extractTokenExpiry(JwtText(auth.PDS.T, auth.PDS.pad)) = Unix(auth.PDS.T)
       /\ auth.Token # NoToken
          => /\ TokenExpiry(auth.Token) = Unix(auth.PDS.T)
             /\ auth.RefreshAt = Unix(auth.PDS.T) - ExpiryMargin

\* C20: a call of refreshAuth has refreshed the session and stored a token
\* whose middle part needs two "=" and came with one.
C20_Witness ==
    \E p \in Reqs :
        /\ pc[p] = "rf_unlock" /\ loc[p].err = "nil"
        /\ loc[p].hist = <<[op |-> "refresh", ok |-> TRUE]>>
        /\ auth.PDS.kind = "exp" /\ auth.PDS.pad = 1
        /\ PaddingOf(ClaimsJson(auth.PDS.T)) = 2
        /\ Len(Split(JwtText(auth.PDS.T, auth.PDS.pad), ".")[2]) % 4 = 3
        /\ auth.Token = loc[p].resp.access
        /\ auth.RefreshAt = Unix(auth.PDS.T) - ExpiryMargin
        /\ auth.RefreshAt # Zero - ExpiryMargin

\* C21: for the token text of every issuer extractTokenExpiry returns an
\* instant, and it returns the zero time whenever the text has not three
\* parts, its middle part is not base64url, the decoded bytes are not a JSON
\* object, exp is absent or exp is not a number; a token with such a text is
\* stored with no expiry.
C21_ZeroTimeWhenMalformed ==
    (auth # NilAuth /\ auth.PDS.kind = "text")
    => /\ extractTokenExpiry(TokenTexts[auth.PDS.T].text) \in Int
       /\ TokenTexts[auth.PDS.T].why # "ok"
          => /\ extractTokenExpiry(TokenTexts[auth.PDS.T].text) = Zero
             /\ auth.Token # NoToken => TokenExpiry(auth.Token) = Zero
       /\ TokenTexts[auth.PDS.T].why = "ok"
          => extractTokenExpiry(TokenTexts[auth.PDS.T].text) # Zero

\* C21: refreshAuth has stored a token of three parts whose middle part is
\* the base64url of a JSON object with a string under exp.
C21_Witness ==
    \E p \in Reqs :
        /\ pc[p] = "rf_unlock" /\ loc[p].err = "nil"
        /\ auth.PDS.kind = "text"
        /\ TokenTexts[auth.PDS.T].why = "type"
        /\ Len(Split(TokenTexts[auth.PDS.T].text, ".")) = 3
        /\ auth.Token = loc[p].resp.access
        /\ TokenExpiry(auth.Token) = Zero
        /\ auth.RefreshAt = now + DefaultRefresh

\* the background refreshers
Refreshers == {Bg, Svc}
\* the request goroutine whose call of refreshAuth meets the refresher
LockCallers == {Req(1)}
Stopped(b) == pc[b] \in {"absent", "stopped"}

\* C22: once the context is cancelled every background refresher eventually
\* stops; a refresher waiting in its select with no tick ready takes the stop
\* as its next step; and a refresher stops only from its select, a transport
\* call in flight having been received first.
C22_CancelStopsRefresher ==
    /\ cancelled ~> \A b \in Refreshers : Stopped(b)
    /\ [][\A b \in Refreshers :
            /\ (cancelled /\ pc[b] = "select" /\ b \notin fired /\ pc'[b] # pc[b])
               => pc'[b] = "stopped"
            /\ (pc'[b] = "stopped" /\ pc[b] # "stopped")
               => cancelled /\ pc[b] = "select"]_vars

\* C22: the context was cancelled while a transport call of the refresher was
\* in flight, or before, and the refresher has stopped after storing a session.
C22_Witness ==
    /\ cancelled
    /\ \E b \in Refreshers : pc[b] = "stopped"
    /\ auth.Token # NoToken
    /\ calls.bg + calls.svc > 0

\* the staleness check a refresher makes on its tick
StaleFor(b) ==
    IF b = Bg THEN TokenExpired(auth.RefreshAt, now)
    ELSE NeedsRefresh(auth.RefreshAt, now)

\* C23: a refresher whose session request failed goes back to its select
\* with srv.auth as it was; no step of a refresher other than its update
\* under the lock changes Token, RefreshToken or RefreshAt; and a refresher
\* that takes a tick while the credential is stale starts a refresh.
C23_FailedTickLeavesCredential ==
    [][\A b \in Refreshers :
        /\ (pc[b] \in {"bg_create_recv", "svc_create_recv"} /\ ~loc[b].resp.ok
            /\ pc'[b] # pc[b])
           => pc'[b] = "select" /\ auth' = auth
        /\ (pc'[b] # pc[b] /\ pc[b] \notin {"bg_write", "svc_write"})
           => auth' = auth
        /\ (pc[b] = "select" /\ b \in fired /\ b \notin fired' /\ StaleFor(b))
           => pc'[b] \in {"bg_read", "svc_create_send"}]_vars

\* C23: since the clock last advanced only the background refresher called
\* the issuer, with the stored refresh token and then with the password; both
\* calls failed, and it waits for its next tick.
C23_Witness ==
    /\ pc[Bg] = "select"
    /\ Bg \notin fired
    /\ calls = [req |-> 0, bg |-> 2, svc |-> 0]
    /\ failed = [create |-> TRUE, refresh |-> TRUE]
    /\ auth.RefreshToken # 0
    /\ TokenExpired(auth.RefreshAt, now)

\* C24: with the background refresher taking every tick of its ticker and
\* the issuer always answering with a JWT of TokenLifetime, the stored access
\* token is never past its exp claim, whether requests arrive or not.
C24_TokenNeverPastExpiry ==
    auth.Token # NoToken => now <= TokenExpiry(auth.Token)

\* C25: a request whose authentication failed, in the middleware or in the
\* handler's ensureValidToken, is answered with 401, and a request that goes
\* on to fetch has had its call of refreshAuth return nil.
C25_AuthFailureIs401 ==
    auth # NilAuth =>
    \A p \in Reqs :
        /\ (pc[p] \in {"resp_401", "resp_500"}) => Status(p) = 401
        /\ pc[p] = "fetch" => loc[p].err = "nil"

C27_FailureSurfaced ==
    auth # NilAuth =>
        /\ \A p \in Reqs :
            (pc[p] = "rf_unlock" /\ loc[p].hist # <<>>
             /\ ~loc[p].hist[Len(loc[p].hist)].ok)
            => loc[p].err \notin {"nil", "none"}
        /\ (ticks = 0 /\ \A p \in Reqs : pc[p] = "rf_done")
           => (failed.create <=> \E p \in Reqs : loc[p].err # "nil")

\* C27: the transport failed its first call and answered the second; the
\* first caller returned the error, the others returned nil.
C27_Witness ==
    /\ ticks = 0
    /\ failed.create
    /\ calls.req = 2
    /\ issued = 1
    /\ loc[Req(1)].err = "failed to create session"
    /\ \A p \in Reqs : pc[p] = "rf_done" /\ (p # Req(1) => loc[p].err = "nil")

\* C28: one call of refreshAuth makes at most one ServerRefreshSession and at
\* most one ServerCreateSession; and when the callers that started together
\* on a never-authenticated credential have all returned, between one and
\* NumReq session requests were made, whether they failed or not.
C28_OneAttemptEach ==
    /\ \A p \in Reqs : NCalls(p, "refresh") <= 1 /\ NCalls(p, "create") <= 1
    /\ (auth # NilAuth /\ ticks = 0 /\ \A p \in Reqs : pc[p] = "rf_done")
       => calls.req >= 1 /\ calls.req <= NumReq

\* C28: every caller made its one ServerCreateSession and every one failed.
C28_Witness ==
    /\ ticks = 0
    /\ calls.req = NumReq
    /\ issued = 0
    /\ \A p \in Reqs : pc[p] = "rf_done" /\ loc[p].err = "failed to create session"

\* C29: a call of refreshAuth whose first check found the credential not
\* stale returns nil from its RUnlock, leaving the write lock alone; a call
\* goes on to Lock only after a first check that found it stale; and RLock
\* is granted whenever no writer holds the mutex, whoever holds read locks.
C29_FreshCallReadsOnly ==
    [][\A p \in Reqs :
        /\ (pc[p] = "rf_runlock" /\ ~loc[p].tokenExpired /\ pc'[p] # pc[p])
           => /\ pc'[p] = "rf_done"
              /\ loc'[p].err = "nil"
              /\ writer' = writer
              /\ loc[p].hist = <<>>
        /\ (pc'[p] = "rf_lock" /\ pc[p] # "rf_lock")
           => pc[p] = "rf_runlock" /\ loc[p].tokenExpired
        /\ (pc[p] = "rf_rlock" /\ InOrder(p) /\ auth # NilAuth /\ writer = NoOne)
           => ENABLED RfRLock(p)]_vars

\* C29: two callers whose first check found the credential fresh hold the
\* read lock at the same time.
C29_Witness ==
    /\ writer = NoOne
    /\ Cardinality(readers) = 2
    /\ \A p \in readers : pc[p] = "rf_runlock" /\ ~loc[p].tokenExpired
    /\ ~TokenExpired(auth.RefreshAt, now)

\* C30: in every state of the credential and the clock, the check of
\* refreshAuth and startBackgroundTokenRefresh and the check of the goroutine
\* and the middleware of setupServer give the same answer.
C30_SameStalenessCheck ==
    auth # NilAuth
    => (TokenExpired(auth.RefreshAt, now) <=> NeedsRefresh(auth.RefreshAt, now))

\* C31: while the clock stands at the start, however many requests pass
\* through the middleware on the stale credential, the issuer hands out at
\* most one session: one request authenticates and the others reuse it.
C31_NoAuthenticationStorm ==
    (auth # NilAuth /\ ticks = 0) => issued <= 1

\* C32: when startServer has returned, on either path, and setupServer had
\* started a refresher, refreshCtx has been cancelled; and from its return on
\* every refresher eventually stops.
C32_CancelledAtReturn ==
    /\ []((pc[Main] = "ss_returned" /\ auth # NilAuth) => cancelled)
    /\ (pc[Main] = "ss_returned") ~> \A b \in Refreshers : Stopped(b)

\* C32: startServer returned the start error; the refresher, which had
\* stored a session, has stopped.
C32_Witness ==
    /\ pc[Main] = "ss_returned"
    /\ loc[Main].err = "failed to start server"
    /\ cancelled
    /\ \E b \in Refreshers : pc[b] = "stopped"
    /\ auth.Token # NoToken

\* C33: no step of refreshAuth, of a background refresher or of the clock
\* changes PDS, Handle or Password of srv.auth.
C33_ConfigUnchanged ==
    [][/\ auth'.PDS = auth.PDS
       /\ auth'.Handle = auth.Handle
       /\ auth'.Password = auth.Password]_vars

\* C33: a session request has failed, another has been answered and its
\* session is stored, and the configuration is the one main.go built.
C33_Witness ==
    /\ failed.create
    /\ auth.Token # NoToken
    /\ auth.RefreshToken # 0
    /\ auth.Handle = "handle"
    /\ auth.Password = "password"
    /\ auth.PDS \in {Pds(k) : k \in TokenKinds}

\* C34: for an exp of T, the token with the claim written T.0 and the token
\* with it written T give the same instant, T seconds after the epoch; the
\* token with it written "T" gives the zero time; and a stored token has the
\* expiry of its form.
C34_FloatAndIntegerAgree ==
    (auth # NilAuth /\ auth.PDS \in FormIssuers) =>
        LET T == auth.PDS.T
            asInt == extractTokenExpiry(JwtOf(ClaimsJsonAs(T, "exp")))
            asFloat == extractTokenExpiry(JwtOf(ClaimsJsonAs(T, "float")))
            asString == extractTokenExpiry(JwtOf(ClaimsJsonAs(T, "string")))
        IN  /\ asFloat = asInt
            /\ asInt = Unix(T)
            /\ asInt # Zero
            /\ asString = Zero
            /\ auth.Token # NoToken
               => TokenExpiry(auth.Token) =
                    IF auth.PDS.kind = "string" THEN Zero ELSE Unix(T)

\* C34: refreshAuth has stored a token whose exp is written with a fraction,
\* with RefreshAt 30 minutes before that instant.
C34_Witness ==
    /\ auth.PDS.kind = "float"
    /\ auth.PDS.T = 4120
    /\ auth.Token # NoToken
    /\ TokenExpiry(auth.Token) = Unix(4120)
    /\ auth.RefreshAt = Unix(4120) - ExpiryMargin

\* C35: no step replaces the stored access token by one the issuer handed
\* out before it.
C35_InstalledInIssuanceOrder ==
    [][(auth # NilAuth /\ auth.Token # NoToken /\ auth'.Token # NoToken)
            => auth'.Token.id >= auth.Token.id]_vars

\* C36: while a handler whose ensureValidToken returned nil makes its
\* outbound call, the client's authorization carries an issued access token,
\* never the value holding only the refresh token.
C36_HandlerReadsAccessToken ==
    \A p \in Reqs :
        pc[p] = "fetch" =>
            /\ xrpcAuth.AccessJwt # NoToken
            /\ xrpcAuth.AccessJwt.id \in 1..issued

\* C37: whenever no one holds the write lock and both an access token and a
\* refresh token are stored, they are those of one transport response.
C37_TokensOfOneResponse ==
    (auth # NilAuth /\ writer = NoOne
        /\ auth.Token # NoToken /\ auth.RefreshToken # 0)
        => auth.RefreshToken = auth.Token.id

\* C38: every call of RefreshSession carries the refresh token stored in the
\* credential state at the moment of the call.
C38_PresentsStoredRefreshToken ==
    [][\A p \in Procs :
          (pc[p] # pc'[p] /\ pc'[p] \in {"rf_refresh_recv", "bg_refresh_recv"})
              => loc'[p].presented = auth.RefreshToken]_vars

\* a process blocked in authMutex.Lock()
Waiting(p) == pc[p] \in {"rf_lock", "bg_lock", "svc_lock"}

\* C39: a returned call of refreshAuth and a refresher back at its select
\* hold no lock; every process waiting for the write lock gets it; every
\* call of refreshAuth returns; and again and again the refresher has ended
\* its tick and the lock is free.
C39_LocksReleasedAndCallsReturn ==
    /\ [](\A p \in Procs :
            pc[p] \in {"rf_done", "select", "stopped"}
                => (p \notin readers /\ writer # p))
    /\ \A p \in LockCallers \cup Refreshers : Waiting(p) ~> (writer = p)
    /\ <>[](\A p \in LockCallers : pc[p] = "rf_done")
    /\ []<>(/\ \A b \in Refreshers : pc[b] \in {"absent", "select", "stopped"}
            /\ writer = NoOne
            /\ readers = {})

\* C39: a caller of refreshAuth that waited for the write lock while a
\* refresher held it has taken it, found the credential fresh on the re-check
\* and is about to release it.
C39_Witness ==
    /\ pc[Req(1)] = "rf_unlock"
    /\ writer = Req(1)
    /\ ~loc[Req(1)].tokenExpired
    /\ loc[Req(1)].err = "nil"
    /\ \E b \in Refreshers : pc[b] = "select"
    /\ issued = 1
    /\ auth.Token.id = 1

\* request goroutines alone (the callers of refreshAuth)
NextReq ==
    \/ \E p \in Reqs : refreshAuth(p)
    \/ Tick

SpecReq == (InitWith({}) \/ InitNoAuth) /\ [][NextReq]_vars

\* the callers of refreshAuth and the forcing of RefreshAt between calls
NextForced ==
    \/ NextReq
    \/ ForceExpiry

SpecForced == (InitWith({}) \/ InitNoAuth) /\ [][NextForced]_vars

\* two calls of refreshAuth, one after the other or together, against an
\* issuer of tokens with a given exp claim
ExtractCallers == {Req(1), Req(2)}
NextExtract ==
    \/ \E p \in ExtractCallers : refreshAuth(p)
    \/ Tick

SpecExtract ==
    /\ \/ \E pds \in ExpIssuers : InitState(NewAuthConfig(pds), {})
       \/ InitNoAuth
    /\ [][NextExtract]_vars

\* the same against an issuer writing the exp claim in each of its forms
SpecForms ==
    /\ \/ \E pds \in FormIssuers : InitState(NewAuthConfig(pds), {})
       \/ InitNoAuth
    /\ [][NextExtract]_vars

\* the same against an issuer of each text of TokenTexts
SpecTexts ==
    /\ \/ \E pds \in TextIssuers : InitState(NewAuthConfig(pds), {})
       \/ InitNoAuth
    /\ [][NextExtract]_vars

\* the same with any issuer, the short-lived one included
SpecAnyIssuer ==
    /\ \/ \E kind \in TokenKinds \cup {ShortLived} :
              InitState(NewAuthConfig(Pds(kind)), {})
       \/ InitNoAuth
    /\ [][NextReq]_vars

\* request goroutines and startBackgroundTokenRefresh
NextBg ==
    \/ \E p \in BgReqs : refreshAuth(p)
    \/ startBackgroundTokenRefresh
    \/ Tick

SpecBg == (InitWith({Bg}) \/ InitNoAuth) /\ [][NextBg]_vars

\* request goroutines and the background refresher the server runs
Next ==
    \/ \E p \in BgReqs : refreshAuth(p)
    \/ startBackgroundTokenRefresh
    \/ setupServerRefresh
    \/ Tick

Spec == Init /\ [][Next]_vars

\* the same with the cancellation of the background refresher
NextLife ==
    \/ Next
    \/ Cancel
    \/ BgStop
    \/ SvcStop

SpecLife == Init /\ [][NextLife]_vars

\* every goroutine keeps running, and a select whose ctx.Done() case is ready
\* again and again takes it
Fairness ==
    /\ \A p \in BgReqs : WF_vars(refreshAuth(p))
    /\ WF_vars(startBackgroundTokenRefresh)
    /\ WF_vars(setupServerRefresh)
    /\ SF_vars(BgStop)
    /\ SF_vars(SvcStop)

\* a server with a PDS issuing JWTs and one of the background refreshers
InitJwt == \E b \in {Bg, Svc} : InitState(NewAuthConfig(Pds("jwt")), {b})

\* the request path of the server of setupServer with a PDS: its middleware
\* and its handlers, with two inbound requests
ServeReqs == {Req(1), Req(2)}

InitServe ==
    \E kind \in TokenKinds :
        /\ auth = NewAuthConfig(Pds(kind))
        /\ xrpcAuth = NoAuthInfo
        /\ writer = NoOne
        /\ readers = {}
        /\ pc = [p \in Procs |-> IF p \in Reqs THEN "mw_check" ELSE "absent"]
        /\ loc = [p \in Procs |-> NoLoc]
        /\ now = StartTime
        /\ ticks = 0
        /\ fired = {}
        /\ cancelled = FALSE
        /\ issued = 0
        /\ failed = NoFailed
        /\ calls = NoCalls

NextServe ==
    \/ \E p \in ServeReqs : serve(p)
    \/ ServeTick

\* without a PDS the middleware is not installed and a request starts in
\* its handler
SpecServe == (InitServe \/ InitNoAuth) /\ [][NextServe]_vars

\* a background refresher on its 5-minute ticker, an issuer of JWTs that
\* always answers, and one inbound request at any time
NextTicker ==
    \/ refreshAuth(Req(1)) /\ TransportSucceeds
    \/ startBackgroundTokenRefresh /\ TransportSucceeds
    \/ setupServerRefresh /\ TransportSucceeds
    \/ TickerTick

SpecTicker == InitJwt /\ [][NextTicker]_vars

\* the server from startServer's select to its return, with its refresher
\* and one inbound request; an earlier request may have stored the first
\* session already
InitStart ==
    \E a \in {NewAuthConfig(Pds("jwt")), NilAuth}, served \in BOOLEAN :
      LET had == served /\ a # NilAuth
          first == [ok |-> TRUE,
                    access |-> IssueToken(1, Pds("jwt"), StartTime),
                    refresh |-> 1]
      IN
        /\ auth = IF had THEN StoreSession(a, first, StartTime) ELSE a
        /\ xrpcAuth = IF had THEN AccessAuth(first.access) ELSE NoAuthInfo
        /\ writer = NoOne
        /\ readers = {}
        /\ pc = [p \in Procs |->
                    IF p \in Reqs THEN "rf_rlock"
                    ELSE IF p = Main THEN "ss_select"
                    ELSE IF p = Svc /\ a # NilAuth THEN "select" ELSE "absent"]
        /\ loc = [p \in Procs |-> NoLoc]
        /\ now = StartTime
        /\ ticks = 0
        /\ fired = IF a # NilAuth THEN {Svc} ELSE {}
        /\ cancelled = FALSE
        /\ issued = IF had THEN 1 ELSE 0
        /\ failed = NoFailed
        /\ calls = NoCalls

NextStart ==
    \/ refreshAuth(Req(1))
    \/ setupServerRefresh
    \/ SvcStop
    \/ Tick
    \/ startServer

SpecStart ==
    /\ InitStart
    /\ [][NextStart]_vars
    /\ WF_vars(refreshAuth(Req(1)))
    /\ WF_vars(setupServerRefresh)
    /\ SF_vars(SvcStop)
    /\ WF_vars(SsShutdown)

\* the server from its start to its shutdown, with one inbound request
NextShutdown ==
    \/ refreshAuth(Req(1))
    \/ startBackgroundTokenRefresh
    \/ setupServerRefresh
    \/ Tick
    \/ Cancel
    \/ BgStop
    \/ SvcStop

SpecShutdown == (InitJwt \/ InitNoAuth) /\ [][NextShutdown]_vars /\ Fairness

\* a caller of refreshAuth and one background refresher, every goroutine
\* being scheduled again and again
NextLocks ==
    \/ \E p \in LockCallers : refreshAuth(p)
    \/ startBackgroundTokenRefresh
    \/ setupServerRefresh
    \/ Tick

SpecLocks ==
    /\ InitJwt \/ InitNoAuth
    /\ [][NextLocks]_vars
    /\ \A p \in LockCallers : WF_vars(refreshAuth(p))
    /\ WF_vars(startBackgroundTokenRefresh)
    /\ WF_vars(setupServerRefresh)

====
